---- MODULE Spec2Model ----
(***************************************************************************)
(* Model of neurodiffeq/pde_spherical.py: the SphericalSolver training /   *)
(* validation loop (fit, _run_epoch, _update_best), solver construction,   *)
(* get_solution and get_internals, the evaluator, and the condition       *)
(* classes with their enforce methods (in fixed-point arithmetic).         *)
(*                                                                         *)
(* Approximators are objects on a heap: `nets`, `best_nets` and the nets   *)
(* of an evaluator are tuples of object ids, and heap[id] is the weight    *)
(* state of that object, identified by the number of optimizer steps that  *)
(* were applied to it.  deepcopy allocates fresh ids.  Python's None is    *)
(* the empty tuple for a list of nets and NoLoss for lowest_loss.          *)
(***************************************************************************)
EXTENDS Integers, Sequences, FiniteSets, TLC

\* ---------------------------------------------------------------- bounds
MaxFuncs == 2
MaxEpochs == 3
MaxTotalEpochs == 3
MaxLossEpochs == 2
MaxBatches == 2
MaxLoss == 1
MaxSqErr == 1
MaxCheckEvery == 2
MaxFits == 2
MaxSolutions == 1

\* ------------------------------------------------------------- constants
\* lowest_loss = None
NoLoss == -1
\* heap cell that holds no object
Free == -1

RECURSIVE Fact(_)
Fact(n) == IF n <= 1 THEN 1 ELSE n * Fact(n - 1)

\* per-batch loss values are multiples of LossScale, so that the division
\* by n_batches[key] (1..MaxBatches) is exact
LossScale == Fact(MaxBatches)
BatchLosses == {k * LossScale : k \in 0..MaxLoss}
\* per-batch sum over the dependent variables of the mean squared error
\* against the analytic solution (multiples of LossScale * MaxFuncs, so
\* that the divisions by n_batches[key] and by n_funcs are exact)
BatchSqErrs == {k * LossScale * Fact(MaxFuncs) : k \in 0..MaxSqErr}

Ids == 1..(5 * MaxFuncs)

Keys == {"train", "valid"}

VARIABLES
    pc,               \* position of the caller / of fit
    ctor_args,        \* arguments SphericalSolver.__init__ was called with
    conditions,       \* self.conditions
    n_funcs,          \* self.n_funcs
    nets,             \* self.nets (object ids)
    heap,             \* weights of every approximator object
    grads,            \* backward passes accumulated in .grad since zero_grad
    r_min, r_max,     \* self.r_min, self.r_max (TRUE: a value, FALSE: None)
    analytic_solutions, \* self.analytic_solutions is not None
    n_batches,        \* self.n_batches
    loss,             \* self.loss
    analytic_mse,     \* self.analytic_mse
    best_nets,        \* self.best_nets
    lowest_loss,      \* self.lowest_loss
    local_epoch,      \* self.local_epoch
    max_local_epoch,  \* self._max_local_epoch
    stop_training,    \* self._stop_training
    phase,            \* self._phase
    monitor,          \* fit's argument monitor (0: None, else check_every)
    callbacks,        \* fit's argument callbacks
    next_epoch,       \* next value of range(max_epochs) in fit
    batch_id,         \* _run_epoch's loop variable
    epoch_loss,       \* _run_epoch's local
    epoch_analytic_mse, \* _run_epoch's local
    cb_i,             \* index of the next callback to call
    sol,              \* the evaluator last returned by get_solution
    ret,              \* outcome of the last call of the public interface
    hist,             \* history variables (observations, not program state)
    cond_pc,          \* position of the caller of the condition classes
    cond_args,        \* arguments a condition class was called with
    conds,            \* the condition objects constructed
    point,            \* the batch point at which the conditions are enforced
    funcs             \* outcome of enforcing every condition at the point

\* the solver and its caller
solverVars == <<pc, ctor_args, conditions, n_funcs, nets, heap, grads, r_min,
                r_max, analytic_solutions, n_batches, loss, analytic_mse,
                best_nets, lowest_loss, local_epoch, max_local_epoch,
                stop_training, phase, monitor, callbacks, next_epoch,
                batch_id, epoch_loss, epoch_analytic_mse, cb_i, sol, ret,
                hist>>

\* the condition objects and their caller
condVars == <<cond_pc, cond_args, conds, point, funcs>>

vars == <<solverVars, condVars>>

\* ---------------------------------------------------------------- helpers
Range(s) == {s[k] : k \in 1..Len(s)}

Min(S) == CHOOSE x \in S : \A y \in S : x <= y

MinOfSeq(s) == Min(Range(s))

\* the k smallest ids outside `used`
RECURSIVE FreshIds(_, _)
FreshIds(k, used) ==
    IF k = 0 THEN <<>>
    ELSE LET id == Min(Ids \ used)
         IN <<id>> \o FreshIds(k - 1, used \cup {id})

\* a copy that shares the objects of the original
ShallowCopyIds(ns, used) == ns

\* copy.deepcopy of a list of nets: new objects with equal weights
\* (deepcopy(None) is None)
DeepCopyIds(ns, used) == FreshIds(Len(ns), used)
DeepCopyHeap(h, ns, used) ==
    LET new == DeepCopyIds(ns, used)
    IN [id \in Ids |->
          IF \E k \in 1..Len(ns) : new[k] = id
          THEN h[ns[CHOOSE k \in 1..Len(ns) : new[k] = id]]
          ELSE h[id]]

\* objects no longer referenced are collected
Collect(h, roots) == [id \in Ids |-> IF id \in roots THEN h[id] ELSE Free]

Weights(h, ns) == [k \in 1..Len(ns) |-> h[ns[k]]]

MakePairDict(t, v) == [train |-> t, valid |-> v]

\* ----------------------------------------------------------- construction
\* nets: 0 for None, else the length of the list supplied
CtorArgs ==
    [n_conds : 1..MaxFuncs, nets : 0..MaxFuncs,
     train_generator : BOOLEAN, valid_generator : BOOLEAN,
     r_min : BOOLEAN, r_max : BOOLEAN,
     analytic_solutions : BOOLEAN,
     n_batches_train : 1..MaxBatches, n_batches_valid : 1..MaxBatches]

\* a constructor that insists on the generators
CtorRaisesGeneratorsOnly(a) ==
    (~a.train_generator) \/ (~a.valid_generator)

\* __init__ raises ValueError
CtorRaises(a) ==
    /\ (~a.train_generator) \/ (~a.valid_generator)
    /\ (~a.r_min) \/ (~a.r_max)

CtorNets(a) ==
    IF a.nets = 0 THEN FreshIds(a.n_conds, {}) ELSE FreshIds(a.nets, {})

\* history variables: what an observer of the run has seen so far
\*   after_train  weights of self.nets right after the latest optimizer step
\*   valid_w      for every entry of loss.valid, after_train when it was added
\*   epoch_loss0, epoch_mse0   self.loss, self.analytic_mse when the current
\*                (or the aborted) epoch began
\*   fit_len0     lengths of self.loss when the current (or the latest) fit
\*                call began
\*   fits, solutions   number of fit and of get_solution calls so far
\*   stop_at      local epoch in which a callback of this fit call first set
\*                the stop flag (-1: none did)
\*   mon_calls    number of monitor.check calls fit made in the current epoch
\*   train_phases number of training phases that ran to their end
\*   opt_steps    number of optimizer steps performed
\*   exc_by, exc_phase  who raised the latest exception, and in which phase
\*   snap_pc      position of the step that last assigned best_nets
\*   sol_copy, sol_best   arguments of the latest get_solution call
\*   request      the latest get_internals request
\*   events       what the current epoch of fit has done so far, in order
\*   raw_sum      sum of the batch losses of the current phase, before
\*                the division by n_batches
\*   checks       the monitor.check calls of the current epoch
\*   repaints     the to_repaint results of the current epoch
\*   aborted      some fit call was left by an exception
\*   stop_found   the stop flag the latest fit call found when it began
NoHist ==
    [after_train |-> <<>>, valid_w |-> <<>>,
     epoch_loss0 |-> MakePairDict(<<>>, <<>>),
     epoch_mse0 |-> MakePairDict(<<>>, <<>>),
     fit_len0 |-> MakePairDict(0, 0), fits |-> 0, solutions |-> 0,
     stop_at |-> -1, mon_calls |-> 0, train_phases |-> 0, opt_steps |-> 0,
     exc_by |-> "none", exc_phase |-> "None", snap_pc |-> "none",
     sol_copy |-> FALSE, sol_best |-> FALSE,
     request |-> [form |-> "None", names |-> <<>>, return_type |-> "None"],
     events |-> <<>>, raw_sum |-> 0, checks |-> <<>>, repaints |-> <<>>,
     aborted |-> FALSE, stop_found |-> FALSE]

\* the fields __init__(a) sets, when it does not raise
SolverFields(a) ==
    [conditions |-> [k \in 1..a.n_conds |-> "condition"],
     n_funcs |-> a.n_conds,
     nets |-> CtorNets(a),
     heap |-> [id \in Ids |-> IF id \in Range(CtorNets(a)) THEN 0 ELSE Free],
     r_min |-> a.r_min,
     r_max |-> a.r_max,
     analytic_solutions |-> a.analytic_solutions,
     n_batches |-> MakePairDict(a.n_batches_train, a.n_batches_valid),
     loss |-> MakePairDict(<<>>, <<>>),
     analytic_mse |-> MakePairDict(<<>>, <<>>),
     best_nets |-> <<>>,
     lowest_loss |-> NoLoss,
     local_epoch |-> 0,
     max_local_epoch |-> 0,
     stop_training |-> FALSE,
     phase |-> "None"]

\* no solver yet
NoSolver ==
    [conditions |-> <<>>, n_funcs |-> 0, nets |-> <<>>,
     heap |-> [id \in Ids |-> Free], r_min |-> FALSE, r_max |-> FALSE,
     analytic_solutions |-> FALSE, n_batches |-> MakePairDict(0, 0),
     loss |-> MakePairDict(<<>>, <<>>),
     analytic_mse |-> MakePairDict(<<>>, <<>>), best_nets |-> <<>>,
     lowest_loss |-> NoLoss, local_epoch |-> 0, max_local_epoch |-> 0,
     stop_training |-> FALSE, phase |-> "None"]

\* the solver's fields are those of the record f
SolverIs(f) ==
    /\ conditions = f.conditions
    /\ n_funcs = f.n_funcs
    /\ nets = f.nets
    /\ heap = f.heap
    /\ grads = 0
    /\ r_min = f.r_min
    /\ r_max = f.r_max
    /\ analytic_solutions = f.analytic_solutions
    /\ n_batches = f.n_batches
    /\ loss = f.loss
    /\ analytic_mse = f.analytic_mse
    /\ best_nets = f.best_nets
    /\ lowest_loss = f.lowest_loss
    /\ local_epoch = f.local_epoch
    /\ max_local_epoch = f.max_local_epoch
    /\ stop_training = f.stop_training
    /\ phase = f.phase

NoFrame ==
    /\ monitor = 0
    /\ callbacks = <<>>
    /\ next_epoch = 0
    /\ batch_id = 0
    /\ epoch_loss = 0
    /\ epoch_analytic_mse = 0
    /\ cb_i = 0
    /\ sol = [nets |-> <<>>, conditions |-> <<>>, kind |-> "None",
              harmonics_fn |-> FALSE]
    /\ ret = "None"
    /\ hist = NoHist

\* no condition class is called
NoCond ==
    /\ cond_pc = "none"
    /\ cond_args = <<>>
    /\ conds = <<>>
    /\ point = <<>>
    /\ funcs = <<>>

\* ------------------------------------------------------------------- Init
\* solvers the run starts from: default nets, both generators supplied
RunArgs ==
    {a \in CtorArgs : /\ a.nets = 0
                      /\ a.train_generator /\ a.valid_generator
                      /\ ~a.r_min /\ ~a.r_max
                      /\ a.n_conds = MaxFuncs
                      /\ a.n_batches_train + a.n_batches_valid = MaxBatches + 1}

\* a solver without analytic solution
Init ==
    /\ pc = "idle"
    /\ ctor_args \in {a \in RunArgs : ~a.analytic_solutions}
    /\ SolverIs(SolverFields(ctor_args))
    /\ NoFrame
    /\ NoCond

\* a solver with an analytic solution to compare with
InitAnalytic ==
    /\ pc = "idle"
    /\ ctor_args \in {a \in RunArgs : a.analytic_solutions}
    /\ SolverIs(SolverFields(ctor_args))
    /\ NoFrame
    /\ NoCond

\* SphericalSolver(...) is called with any arguments
InitCtor ==
    /\ pc = "ctor"
    /\ ctor_args \in CtorArgs
    /\ SolverIs(NoSolver)
    /\ NoFrame
    /\ NoCond

\* SphericalSolver(...) is called with any combination of generators and
\* radii, default nets, one batch per phase
InitCtorFit ==
    /\ pc = "ctor"
    /\ ctor_args \in {a \in CtorArgs : /\ a.nets = 0
                                       /\ a.n_conds = MaxFuncs
                                       /\ ~a.analytic_solutions
                                       /\ a.n_batches_train = 1
                                       /\ a.n_batches_valid = 1}
    /\ SolverIs(NoSolver)
    /\ NoFrame
    /\ NoCond

\* SphericalSolver.__init__: raises, or returns the new solver
Construct ==
    /\ pc = "ctor"
    /\ IF CtorRaises(ctor_args)
       THEN /\ pc' = "failed"
            /\ ret' = "ValueError"
            /\ UNCHANGED <<conditions, n_funcs, nets, heap, grads, r_min,
                           r_max, analytic_solutions, n_batches, loss,
                           analytic_mse, best_nets, lowest_loss, local_epoch,
                           max_local_epoch, stop_training, phase>>
       ELSE /\ pc' = "idle"
            /\ ret' = "solver"
            /\ LET f == SolverFields(ctor_args)
               IN /\ conditions' = f.conditions
                  /\ n_funcs' = f.n_funcs
                  /\ nets' = f.nets
                  /\ heap' = f.heap
                  /\ grads' = 0
                  /\ r_min' = f.r_min
                  /\ r_max' = f.r_max
                  /\ analytic_solutions' = f.analytic_solutions
                  /\ n_batches' = f.n_batches
                  /\ loss' = f.loss
                  /\ analytic_mse' = f.analytic_mse
                  /\ best_nets' = f.best_nets
                  /\ lowest_loss' = f.lowest_loss
                  /\ local_epoch' = f.local_epoch
                  /\ max_local_epoch' = f.max_local_epoch
                  /\ stop_training' = f.stop_training
                  /\ phase' = f.phase
    /\ UNCHANGED <<ctor_args, monitor, callbacks, next_epoch, batch_id,
                   epoch_loss, epoch_analytic_mse, cb_i, sol, hist, condVars>>

\* ----------------------------------------------------------- callbacks
\* a callback that requests a stop in local epoch `at`, and one that only
\* looks at the solver
StopAt(e) == [kind |-> "stop_at", at |-> e]
Noop == [kind |-> "noop", at |-> 0]

CallbackLists ==
    {<<>>} \cup {<<StopAt(e)>> : e \in 0..(MaxEpochs - 1)}
           \cup {<<StopAt(e), Noop>> : e \in 0..(MaxEpochs - 1)}

\* cb(solver) sets solver._stop_training
CallbackStops(cb, le) == cb.kind = "stop_at" /\ le = cb.at

\* -------------------------------------------------------------------- fit
\* what no method of a constructed solver assigns
solverConst == <<ctor_args, conditions, n_funcs, r_min, r_max,
                 analytic_solutions, n_batches, condVars>>

\* a fit that keeps the stop flag it finds
StopFlagKept(stop) == stop

\* `self._stop_training = False`, the first statement of fit
StopFlagAtFit(stop) == FALSE

\* fit(max_epochs, monitor, callbacks): lines 631-632, up to the loop
Fit(me, mon, cbs) ==
    /\ pc = "idle"
    /\ hist.fits < MaxFits
    /\ pc' = "loop"
    /\ stop_training' = StopFlagAtFit(stop_training)
    /\ max_local_epoch' = me
    /\ monitor' = mon
    /\ callbacks' = cbs
    /\ next_epoch' = 0
    /\ cb_i' = 0
    /\ ret' = "running"
    /\ hist' = [hist EXCEPT !.fit_len0 = MakePairDict(Len(loss.train),
                                                      Len(loss.valid)),
                            !.fits = @ + 1, !.stop_at = -1, !.mon_calls = 0,
                            !.exc_by = "none", !.exc_phase = "None",
                            !.stop_found = stop_training]
    /\ UNCHANGED <<solverConst, nets, heap, grads, loss, analytic_mse,
                   best_nets, lowest_loss, local_epoch, phase, batch_id,
                   epoch_loss, epoch_analytic_mse, sol>>

\* between fit calls, the caller sets the stop flag of the solver
SetStopFlag ==
    /\ pc = "idle"
    /\ ~stop_training
    /\ stop_training' = TRUE
    /\ UNCHANGED <<pc, solverConst, nets, heap, grads, loss, analytic_mse,
                   best_nets, lowest_loss, local_epoch, max_local_epoch,
                   phase, monitor, callbacks, next_epoch, batch_id,
                   epoch_loss, epoch_analytic_mse, cb_i, sol, ret, hist>>

\* global_epoch
GlobalEpoch == Len(loss["train"])

\* an entry of hist.events
Event(e, a) == [ev |-> e, arg |-> a]

\* a loop that does not look at the stop flag
LoopExitsIgnoreStop(i, max_epochs, stop) == i >= max_epochs

\* a loop that runs one epoch too many
LoopExitsOffByOne(i, max_epochs, stop) == i > max_epochs \/ stop

\* the loop of fit is left: range(max_epochs) is exhausted, or the stop
\* flag is found set
LoopExits(i, max_epochs, stop) == i >= max_epochs \/ stop

\* the head of `for local_epoch in range(max_epochs)` and the stop check:
\* either fit returns (its locals are gone), or the epoch begins with the
\* first lines of run_train_epoch
LoopHead ==
    /\ pc = "loop"
    /\ IF LoopExits(next_epoch, max_local_epoch, stop_training)
       THEN /\ pc' = "idle"
            /\ ret' = "None"
            /\ monitor' = 0
            /\ callbacks' = <<>>
            /\ next_epoch' = 0
            /\ cb_i' = 0
            /\ hist' = [hist EXCEPT !.mon_calls = 0, !.events = <<>>,
                                    !.checks = <<>>, !.repaints = <<>>]
            /\ UNCHANGED <<local_epoch, phase, batch_id, epoch_loss,
                           epoch_analytic_mse>>
       ELSE /\ local_epoch' = next_epoch
            /\ next_epoch' = next_epoch + 1
            /\ pc' = "train"
            /\ phase' = "train"
            /\ batch_id' = 0
            /\ epoch_loss' = 0
            /\ epoch_analytic_mse' = 0
            /\ hist' = [hist EXCEPT !.epoch_loss0 = loss,
                                    !.epoch_mse0 = analytic_mse,
                                    !.mon_calls = 0,
                                    !.events = <<Event("stop_check", "False")>>,
                                    !.raw_sum = 0,
                                    !.checks = <<>>, !.repaints = <<>>]
            /\ UNCHANGED <<ret, monitor, callbacks, cb_i>>
    /\ UNCHANGED <<solverConst, nets, heap, grads, loss, analytic_mse,
                   best_nets, lowest_loss, max_local_epoch, stop_training,
                   sol>>

\* ------------------------------------------------------------- _run_epoch
\* a history that keeps the latest value only
UpdateHistoryReplace(h, value, key) == [h EXCEPT ![key] = <<value>>]

\* a history update that ignores its key
UpdateHistoryBothKeys(h, value, key) ==
    [k \in DOMAIN h |-> Append(h[k], value)]

\* a history update that appends its value twice
UpdateHistoryTwice(h, value, key) ==
    [h EXCEPT ![key] = Append(Append(@, value), value)]

\* _update_history(value, 'loss' | 'analytic_mse', key): list.append
UpdateHistory(h, value, key) == [h EXCEPT ![key] = Append(@, value)]

\* self.optimizer.step(): every parameter the optimizer holds (those of
\* self.nets) moves to its next value
OptimizerStep(h, ns) ==
    [id \in Ids |-> IF id \in Range(ns) THEN h[id] + 1 ELSE h[id]]

\* a test that takes every validation loss as the new best
IsNewBestAlways(current_loss, lowest) == TRUE

\* a test that lets a tie replace the best
IsNewBestOrTie(current_loss, lowest) ==
    (lowest = NoLoss) \/ current_loss <= lowest

\* the test of _update_best
IsNewBest(current_loss, lowest) ==
    (lowest = NoLoss) \/ current_loss < lowest

\* a backward pass in every phase
BackwardAlways(g, key) == g + 1

\* `if key == 'train': loss.backward()`: the gradients after a batch
Backward(g, key) == IF key = "train" THEN g + 1 ELSE g

\* _generate_batch(key): the generator a batch of phase key is drawn from,
\* self.generator[key]
GeneratorOf(key) == key

\* a loss that is summed, not averaged, over the batches
BatchLossUndivided(l, n) == l

\* `loss /= self.n_batches[key]`: what a batch adds to epoch_loss
BatchLoss(l, n) == l \div n

\* objects alive while _run_epoch runs
Alive == Range(nets) \cup Range(best_nets) \cup Range(sol.nets)

\* one iteration of `for batch_id in range(self.n_batches[key])` that
\* runs to its end; l is what criterion(residuals) + additional_loss gives,
\* se the sum over the dependent variables of the squared-error means
RunBatch(key, L, SE) ==
    /\ pc = key
    /\ batch_id < n_batches[key]
    /\ \E l \in L :
       \E se \in (IF analytic_solutions THEN SE ELSE {0}) :
          /\ epoch_analytic_mse' = epoch_analytic_mse + se
          /\ epoch_loss' = epoch_loss + BatchLoss(l, n_batches[key])
          /\ hist' = [hist EXCEPT
                        !.events = Append(@, Event("batch", GeneratorOf(key))),
                        !.raw_sum = @ + l]
    /\ grads' = Backward(grads, key)
    /\ batch_id' = batch_id + 1
    /\ phase' = key
    /\ UNCHANGED <<pc, solverConst, nets, heap, loss, analytic_mse, best_nets,
                   lowest_loss, local_epoch, max_local_epoch, stop_training,
                   monitor, callbacks, next_epoch, cb_i, sol, ret>>

\* one iteration in which the generator, the residual system or the
\* criterion raises: nothing catches it, fit is left
BatchRaises(key, who) ==
    /\ pc = key
    /\ batch_id < n_batches[key]
    /\ pc' = "idle"
    /\ ret' = "Exception"
    /\ phase' = key
    /\ batch_id' = 0
    /\ epoch_loss' = 0
    /\ epoch_analytic_mse' = 0
    /\ monitor' = 0
    /\ callbacks' = <<>>
    /\ next_epoch' = 0
    /\ cb_i' = 0
    /\ hist' = [hist EXCEPT !.exc_by = who, !.exc_phase = key,
                            !.events = <<>>, !.raw_sum = 0,
                            !.checks = <<>>, !.repaints = <<>>,
                            !.aborted = TRUE]
    /\ UNCHANGED <<solverConst, nets, heap, grads, loss, analytic_mse,
                   best_nets, lowest_loss, local_epoch, max_local_epoch,
                   stop_training, sol>>

\* an entry that is averaged over the batches only
EpochAnalyticMseOverBatches(sum, key) == sum \div n_batches[key]

\* the analytic-MSE entry of a phase
EpochAnalyticMse(sum, key) == (sum \div n_batches[key]) \div n_funcs

\* a training phase that forgets to clear the gradients
ZeroGradSkipped(g) == g

\* self.optimizer.zero_grad()
ZeroGrad(g) == 0

\* what the lines after the batch loop of _run_epoch(key) do, in order
PhaseEndEvents(key) ==
    <<Event("append_loss", key)>>
    \o (IF key = "train"
        THEN <<Event("optimizer_step", key), Event("zero_grad", key)>>
        ELSE <<Event("update_best", key)>>)
    \o (IF analytic_solutions
        THEN <<Event("append_analytic_mse", key)>>
        ELSE <<>>)

\* the end of _run_epoch('train'): history, optimizer step, zero_grad,
\* analytic MSE; then the first lines of _run_epoch('valid')
EndTrain ==
    /\ pc = "train"
    /\ batch_id = n_batches["train"]
    /\ loss' = UpdateHistory(loss, epoch_loss, "train")
    /\ heap' = OptimizerStep(heap, nets)
    /\ grads' = ZeroGrad(grads)
    /\ analytic_mse' =
          IF analytic_solutions
          THEN UpdateHistory(analytic_mse,
                             EpochAnalyticMse(epoch_analytic_mse, "train"),
                             "train")
          ELSE analytic_mse
    /\ pc' = "valid"
    /\ phase' = "valid"
    /\ batch_id' = 0
    /\ epoch_loss' = 0
    /\ epoch_analytic_mse' = 0
    /\ hist' = [hist EXCEPT !.after_train = Weights(heap', nets),
                            !.train_phases = @ + 1,
                            !.opt_steps = @ + 1,
                            !.events = @ \o PhaseEndEvents("train"),
                            !.raw_sum = 0]
    /\ UNCHANGED <<solverConst, nets, best_nets, lowest_loss, local_epoch,
                   max_local_epoch, stop_training, monitor, callbacks,
                   next_epoch, cb_i, sol, ret>>

\* the end of _run_epoch('train') when the optimizer step raises: the
\* loss is in the history, the gradients stay, fit is left
OptimizerRaises ==
    /\ pc = "train"
    /\ batch_id = n_batches["train"]
    /\ loss' = UpdateHistory(loss, epoch_loss, "train")
    /\ pc' = "idle"
    /\ ret' = "Exception"
    /\ batch_id' = 0
    /\ epoch_loss' = 0
    /\ epoch_analytic_mse' = 0
    /\ monitor' = 0
    /\ callbacks' = <<>>
    /\ next_epoch' = 0
    /\ cb_i' = 0
    /\ hist' = [hist EXCEPT !.exc_by = "optimizer", !.exc_phase = "train",
                            !.events = <<>>, !.raw_sum = 0,
                            !.checks = <<>>, !.repaints = <<>>,
                            !.aborted = TRUE]
    /\ UNCHANGED <<solverConst, nets, heap, grads, analytic_mse, best_nets,
                   lowest_loss, local_epoch, max_local_epoch, stop_training,
                   phase, sol>>

\* the end of _run_epoch('valid'): history, _update_best, analytic MSE
EndValid ==
    /\ pc = "valid"
    /\ batch_id = n_batches["valid"]
    /\ loss' = UpdateHistory(loss, epoch_loss, "valid")
    /\ LET current_loss == loss'["valid"][Len(loss'["valid"])]
       IN IF IsNewBest(current_loss, lowest_loss)
          THEN /\ lowest_loss' = current_loss
               /\ best_nets' = DeepCopyIds(nets, Alive)
               /\ heap' = Collect(DeepCopyHeap(heap, nets, Alive),
                                  Range(nets) \cup Range(best_nets')
                                              \cup Range(sol.nets))
               /\ hist' = [hist EXCEPT !.valid_w = Append(@, hist.after_train),
                                       !.snap_pc = pc,
                                       !.events = @ \o PhaseEndEvents("valid"),
                                       !.raw_sum = 0]
          ELSE /\ UNCHANGED <<lowest_loss, best_nets, heap>>
               /\ hist' = [hist EXCEPT !.valid_w = Append(@, hist.after_train),
                                       !.events = @ \o PhaseEndEvents("valid"),
                                       !.raw_sum = 0]
    /\ analytic_mse' =
          IF analytic_solutions
          THEN UpdateHistory(analytic_mse,
                             EpochAnalyticMse(epoch_analytic_mse, "valid"),
                             "valid")
          ELSE analytic_mse
    /\ pc' = IF callbacks # <<>> THEN "callbacks" ELSE "monitor"
    /\ cb_i' = 1
    /\ batch_id' = 0
    /\ epoch_loss' = 0
    /\ epoch_analytic_mse' = 0
    /\ UNCHANGED <<solverConst, nets, grads, local_epoch, max_local_epoch,
                   stop_training, phase, monitor, callbacks, next_epoch,
                   sol, ret>>

\* ------------------------------------------------------- MonitorCallback
\* MonitorCallback(monitor, check_against=.., repaint_last=..), with the
\* check_every of its monitor
MonitorCallback(check_every, check_against, repaint_last) ==
    [kind |-> "monitor_callback", at |-> 0, check_every |-> check_every,
     check_against |-> check_against, repaint_last |-> repaint_last]

\* MonitorCallback.to_repaint(solver)
ToRepaint(cb, le, ge, max_le) ==
    LET epoch_now == IF cb.check_against = "local" THEN le + 1 ELSE ge + 1
    IN \/ epoch_now % cb.check_every = 0
       \/ (cb.repaint_last /\ le = max_le - 1)

\* the solver attributes MonitorCallback.__call__ hands to monitor.check
CallbackCheckArgs ==
    [nets |-> "nets", conditions |-> "conditions", loss_history |-> "loss",
     analytic_mse_history |-> "analytic_solutions"]

\* the solver attributes fit hands to monitor.check
FitCheckArgs ==
    [nets |-> "nets", conditions |-> "conditions", loss_history |-> "loss",
     analytic_mse_history |-> "analytic_mse"]

\* ------------------------------------------------ fit: callbacks, monitor
\* a loop that calls the callbacks last to first
CallbackAtReversed(cbs, i) == cbs[Len(cbs) + 1 - i]

\* `for cb in callbacks`: the callback of the i-th iteration
CallbackAt(cbs, i) == cbs[i]

\* a loop that leaves the callbacks as soon as a stop is requested
CallbacksDoneOrStopped(cbs, i, stop) == i = Len(cbs) \/ stop

\* `for cb in callbacks` is exhausted after the i-th iteration
CallbacksDone(cbs, i, stop) == i = Len(cbs)

\* one iteration of `for cb in callbacks: cb(self)`
RunCallback ==
    /\ pc = "callbacks"
    /\ cb_i <= Len(callbacks)
    /\ LET cb == CallbackAt(callbacks, cb_i)
           stops == CallbackStops(cb, local_epoch)
           paints == cb.kind = "monitor_callback"
           repaint == /\ paints
                      /\ ToRepaint(cb, local_epoch, GlobalEpoch,
                                   max_local_epoch)
       IN /\ stop_training' = (stop_training \/ stops)
          /\ hist' = [hist EXCEPT
                        !.stop_at = IF stops /\ @ = -1 THEN local_epoch ELSE @,
                        !.events = Append(@, Event("callback", cb.kind)),
                        !.repaints = IF paints THEN Append(@, repaint) ELSE @,
                        !.checks = IF repaint
                                   THEN Append(@, [by |-> "callback",
                                                   args |-> CallbackCheckArgs])
                                   ELSE @]
    /\ cb_i' = cb_i + 1
    /\ pc' = IF CallbacksDone(callbacks, cb_i, stop_training')
             THEN "monitor" ELSE "callbacks"
    /\ UNCHANGED <<solverConst, nets, heap, grads, loss, analytic_mse,
                   best_nets, lowest_loss, local_epoch, max_local_epoch,
                   phase, monitor, callbacks, next_epoch, batch_id,
                   epoch_loss, epoch_analytic_mse, sol, ret>>

\* a test that forgets the last epoch
MonitorDueNoLast(le, max_epochs, check_every) == (le + 1) % check_every = 0

\* the test that guards monitor.check in fit
MonitorDue(le, max_epochs, check_every) ==
    (le + 1) % check_every = 0 \/ le = max_epochs - 1

\* `if monitor: if ...: monitor.check(...)`, the last statement of the
\* loop body
MonitorStep ==
    /\ pc = "monitor"
    /\ LET checked == /\ monitor # 0
                      /\ MonitorDue(local_epoch, max_local_epoch, monitor)
       IN hist' = [hist EXCEPT
                     !.mon_calls = IF checked THEN @ + 1 ELSE @,
                     !.events =
                        IF monitor = 0 THEN @
                        ELSE Append(@, Event("monitor",
                                             IF checked THEN "check"
                                                        ELSE "skip")),
                     !.checks = IF checked
                                THEN Append(@, [by |-> "fit",
                                                args |-> FitCheckArgs])
                                ELSE @]
    /\ pc' = "loop"
    /\ UNCHANGED <<solverConst, nets, heap, grads, loss, analytic_mse,
                   best_nets, lowest_loss, local_epoch, max_local_epoch,
                   stop_training, phase, monitor, callbacks, next_epoch,
                   batch_id, epoch_loss, epoch_analytic_mse, cb_i, sol, ret>>

\* ------------------------------------------------------------ get_solution
\* an evaluator that keeps the list it is given
SolutionNetsShared(ns, used) == ns

\* SolutionSpherical.__init__: self.nets = deepcopy(nets)
SolutionNets(ns, used) == DeepCopyIds(ns, used)

\* a get_solution that writes its choice back to the solver
ChosenIntoSelf(ns, best_ns, best) ==
    IF best /\ best_ns # <<>> THEN best_ns ELSE ns

\* `nets = self.best_nets if best else self.nets` assigns a local name:
\* self.nets after the call
SelfNetsAfterChoice(ns, best_ns, best) == ns

\* get_solution(copy, best, harmonics_fn); SolutionSphericalHarmonics
\* calls SolutionSpherical.__init__
GetSolution(copy, best, harmonics_fn) ==
    /\ pc = "idle"
    /\ hist.solutions < MaxSolutions
    /\ LET chosen == IF best THEN best_nets ELSE nets
           \* ids reserved for the evaluator's own copy
           own == Range(FreshIds(Len(chosen), Alive))
           c1 == IF copy THEN DeepCopyIds(chosen, Alive \cup own) ELSE chosen
           h1 == IF copy THEN DeepCopyHeap(heap, chosen, Alive \cup own)
                 ELSE heap
           c2 == SolutionNets(c1, Alive \cup Range(c1))
           h2 == DeepCopyHeap(h1, c1, Alive \cup Range(c1))
       IN /\ sol' = [nets |-> c2,
                     conditions |-> conditions,
                     kind |-> IF harmonics_fn
                              THEN "SolutionSphericalHarmonics"
                              ELSE "SolutionSpherical",
                     harmonics_fn |-> harmonics_fn]
          /\ heap' = Collect(h2, Range(nets) \cup Range(best_nets)
                                             \cup Range(c2))
          /\ hist' = [hist EXCEPT !.solutions = @ + 1,
                                  !.sol_copy = copy, !.sol_best = best]
    /\ nets' = SelfNetsAfterChoice(nets, best_nets, best)
    /\ ret' = "solution"
    /\ UNCHANGED <<pc, solverConst, grads, loss, analytic_mse,
                   best_nets, lowest_loss, local_epoch, max_local_epoch,
                   stop_training, phase, monitor, callbacks, next_epoch,
                   batch_id, epoch_loss, epoch_analytic_mse, cb_i>>

\* SolutionSpherical.__call__(rs, thetas, phis): the evaluator enforces its
\* own conditions on its own nets; zip(self.conditions, None) raises
Evaluate ==
    /\ pc = "idle"
    /\ sol.kind # "None"
    /\ ret' = IF sol.nets = <<>> THEN "TypeError" ELSE "values"
    /\ UNCHANGED <<pc, solverConst, nets, heap, grads, loss, analytic_mse,
                   best_nets, lowest_loss, local_epoch, max_local_epoch,
                   stop_training, phase, monitor, callbacks, next_epoch,
                   batch_id, epoch_loss, epoch_analytic_mse, cb_i, sol, hist>>

\* ----------------------------------------------------------- get_internals
\* the keys of available_params
AvailableParams ==
    {"analytic_mse", "analytic_solutions", "n_batches", "best_nets",
     "criterion", "conditions", "global_epoch", "loss", "lowest_loss",
     "n_funcs", "nets", "optimizer", "pdes", "r_max", "r_min"}

\* param_names: the string "all", another string, or a list of strings
ParamNames ==
    {[form |-> "all", names |-> <<"all">>],
     [form |-> "str", names |-> <<"loss">>],
     [form |-> "str", names |-> <<"weights">>],
     [form |-> "list", names |-> <<>>],
     [form |-> "list", names |-> <<"nets", "loss">>],
     [form |-> "list", names |-> <<"nets", "weights">>]}

ReturnTypes == {"list", "dict", "tuple"}

\* a get_internals that takes any other return type as 'list'
GetInternalsOutcomeNoTypeCheck(param_names, return_type) ==
    IF param_names.form = "all" THEN "dict"
    ELSE IF param_names.form = "str"
    THEN IF param_names.names[1] \in AvailableParams
         THEN "value" ELSE "KeyError"
    ELSE IF Range(param_names.names) \subseteq AvailableParams
    THEN (IF return_type = "dict" THEN "dict" ELSE "list")
    ELSE "KeyError"

\* a get_internals that looks names up with dict.get
GetInternalsOutcomeLenient(param_names, return_type) ==
    IF param_names.form = "all" THEN "dict"
    ELSE IF param_names.form = "str" THEN "value"
    ELSE IF return_type = "list" THEN "list"
    ELSE IF return_type = "dict" THEN "dict"
    ELSE "ValueError"

\* what get_internals(param_names, return_type) gives: the kind of value
\* returned, or the exception raised
GetInternalsOutcome(param_names, return_type) ==
    IF param_names.form = "all" THEN "dict"
    ELSE IF param_names.form = "str"
    THEN IF param_names.names[1] \in AvailableParams
         THEN "value" ELSE "KeyError"
    ELSE IF return_type = "list"
    THEN IF Range(param_names.names) \subseteq AvailableParams
         THEN "list" ELSE "KeyError"
    ELSE IF return_type = "dict"
    THEN IF Range(param_names.names) \subseteq AvailableParams
         THEN "dict" ELSE "KeyError"
    ELSE "ValueError"

GetInternals(param_names, return_type) ==
    /\ pc = "idle"
    /\ ret' = GetInternalsOutcome(param_names, return_type)
    /\ hist' = [hist EXCEPT !.request =
                    [form |-> param_names.form, names |-> param_names.names,
                     return_type |-> return_type]]
    /\ UNCHANGED <<pc, solverConst, nets, heap, grads, loss, analytic_mse,
                   best_nets, lowest_loss, local_epoch, max_local_epoch,
                   stop_training, phase, monitor, callbacks, next_epoch,
                   batch_id, epoch_loss, epoch_analytic_mse, cb_i, sol>>

\* ------------------------------------------------------------ arithmetic
\* tensors hold fixed-point numbers; Scale stands for 1.0
Scale == 1000

Mul(a, b) == (a * b) \div Scale

Div(a, b) == (a * Scale) \div b

\* e to a whole power n, by repeated multiplication with e or 1/e; below
\* e^-8 the result underflows to 0
RECURSIVE ExpInt(_)
ExpInt(n) ==
    IF n = 0 THEN Scale
    ELSE IF n < -8 THEN 0
    ELSE IF n < 0 THEN Mul(ExpInt(n + 1), 368)
    ELSE Mul(ExpInt(n - 1), 2718)

\* e^t for 0 <= t < 1, by its Taylor polynomial of degree 4
ExpFrac(t) ==
    Scale + t + (Mul(t, t) \div 2) + (Mul(Mul(t, t), t) \div 6)
          + (Mul(Mul(Mul(t, t), t), t) \div 24)

\* torch.exp
Exp(x) ==
    LET n == x \div Scale
    IN Mul(ExpInt(n), ExpFrac(x - n * Scale))

\* torch.tanh
Tanh(x) ==
    IF x >= 0
    THEN Div(Scale - Exp(-2 * x), Scale + Exp(-2 * x))
    ELSE -Div(Scale - Exp(2 * x), Scale + Exp(2 * x))

\* ------------------------------------------------------------- conditions
\* Python's None and a value that is not None
None == <<>>
Some(v) == <<v>>

DirichletClasses ==
    {"DirichletBVPSpherical", "DirichletBVPSphericalHarmonics"}

InfDirichletClasses ==
    {"InfDirichletBVPSpherical", "InfDirichletBVPSphericalHarmonics"}

NoConditionClasses ==
    {"NoConditionSpherical", "NoConditionSphericalHarmonics"}

BaseClasses == {"BaseConditionSpherical", "BaseConditionSphericalHarmonics"}

\* the classes whose enforce is enforce(self, net, r)
HarmonicsClasses ==
    {"BaseConditionSphericalHarmonics", "NoConditionSphericalHarmonics",
     "DirichletBVPSphericalHarmonics", "InfDirichletBVPSphericalHarmonics"}

\* radii and boundary values a condition is constructed with, raw outputs
\* of a net, radii of the points of a batch
InnerRadii == {0, Scale}
OuterRadii == {2 * Scale, 3 * Scale}
BoundaryValues == {-Scale, 2 * Scale}
Orders == {Scale \div 2, Scale, 4 * Scale, 8 * Scale}
RawOutputs == {-3 * Scale, 0, 5 * Scale}
PointRadii ==
    {0, Scale \div 2, Scale, 2 * Scale, 3 * Scale, 9 * Scale, 16 * Scale}

\* the constructor calls: cls(r_0, f, r_1, g) for the two-sided classes,
\* cls(r_0, f, g, order) for the infinite ones, cls() for the others
CondArgs ==
    [cls : DirichletClasses, r_0 : InnerRadii, f : BoundaryValues,
     r_1 : {None} \cup {Some(r) : r \in OuterRadii},
     g : {None} \cup {Some(v) : v \in BoundaryValues}, order : {Scale}]
    \cup
    [cls : InfDirichletClasses, r_0 : InnerRadii, f : BoundaryValues,
     r_1 : {None}, g : {Some(v) : v \in BoundaryValues}, order : Orders]
    \cup
    [cls : NoConditionClasses \cup BaseClasses, r_0 : {0}, f : {0},
     r_1 : {None}, g : {None}, order : {Scale}]

\* a constructor that wants both outer arguments
CondInitRaisesUnlessBoth(a) ==
    /\ a.cls \in DirichletClasses
    /\ (a.r_1 = None) \/ (a.g = None)

\* `if (r_1 is None) ^ (g is None): raise ValueError`
CondInitRaises(a) ==
    /\ a.cls \in DirichletClasses
    /\ (a.r_1 = None) # (a.g = None)

\* cls(...): raises, or returns the condition object
CondInit ==
    /\ cond_pc = "new"
    /\ IF CondInitRaises(cond_args)
       THEN cond_pc' = "failed" /\ conds' = <<>>
       ELSE cond_pc' = "ready" /\ conds' = <<cond_args>>
    /\ UNCHANGED <<solverVars, cond_args, point, funcs>>

\* ---------------------------------------------------------------- enforce
\* `(1 - torch.exp(-r + self.r_0))`
OneSidedWeight(r, r_0) == Scale - Exp(-r + r_0)

\* a weight that vanishes at the inner boundary only
TwoSidedWeightInnerOnly(r_tilde) == Scale - Exp(-r_tilde)

\* `(1. - torch.exp((1 - r_tilde) * r_tilde))`
TwoSidedWeight(r_tilde) == Scale - Exp(Mul(Scale - r_tilde, r_tilde))

\* DirichletBVPSpherical.enforce, DirichletBVPSphericalHarmonics.enforce
\* on a raw output u
DirichletEnforce(c, r, u) ==
    IF c.r_1 = None
    THEN Mul(OneSidedWeight(r, c.r_0), u) + c.f
    ELSE LET r_tilde == Div(r - c.r_0, c.r_1[1] - c.r_0)
         IN Mul(c.f, Scale - r_tilde) + Mul(c.g[1], r_tilde)
               + Mul(TwoSidedWeight(r_tilde), u)

\* a distance measured from the origin
InfDrNoShift(r, r_0) == r

\* `dr = r - self.r_0`
InfDr(r, r_0) == r - r_0

\* InfDirichletBVPSpherical.enforce, InfDirichletBVPSphericalHarmonics
\* .enforce on a raw output u
InfDirichletEnforce(c, r, u) ==
    LET dr == InfDr(r, c.r_0)
    IN Mul(c.f, Exp(-Mul(c.order, dr))) + Mul(c.g[1], Tanh(dr))
          + Mul(Mul(Exp(-Mul(c.order, dr)), Tanh(dr)), u)

\* only the direct-field base class is abstract
IsAbstractDirectOnly(cls) == cls = "BaseConditionSpherical"

\* the classes whose enforce raises NotImplementedError
IsAbstract(cls) == cls \in BaseClasses

\* the parameters of the bound method cond.enforce
EnforceParams(cls) ==
    IF cls \in HarmonicsClasses
    THEN <<"net", "r">>
    ELSE <<"net", "r", "theta", "phi">>

\* cond.enforce(net, *args) at the point pt: what it raises or returns,
\* how often it evaluated the net, and what it was called with
CondEnforce(c, args, pt) ==
    IF Len(args) # Len(EnforceParams(c.cls)) - 1
    THEN [raised |-> "TypeError", value |-> 0, net_calls |-> 0,
          via |-> "enforce", args |-> args]
    ELSE IF IsAbstract(c.cls)
    THEN [raised |-> "NotImplementedError", value |-> 0, net_calls |-> 0,
          via |-> "enforce", args |-> args]
    ELSE [raised |-> "None",
          value |-> IF c.cls \in DirichletClasses
                    THEN DirichletEnforce(c, pt.r, pt.u)
                    ELSE IF c.cls \in InfDirichletClasses
                    THEN InfDirichletEnforce(c, pt.r, pt.u)
                    ELSE pt.u,
          net_calls |-> 1, via |-> "enforce", args |-> args]

\* the coordinates of a batch
Coordinates == <<"r", "theta", "phi">>

\* points[:n]
Leading(points, n) == [k \in 1..Min({n, Len(points)}) |-> points[k]]

\* a slice that is one too long
AutoEnforceArgsOffByOne(n_params, points) == Leading(points, n_params)

\* `points = points[:n_params - 1]`
AutoEnforceArgs(n_params, points) == Leading(points, n_params - 1)

\* _auto_enforce(net, cond, *points)
AutoEnforce(c, pt) ==
    IF pt.enforcer
    THEN [raised |-> "None", value |-> pt.u, net_calls |-> 1,
          via |-> "enforcer", args |-> Coordinates]
    ELSE CondEnforce(c, AutoEnforceArgs(Len(EnforceParams(c.cls)),
                                         Coordinates), pt)

\* the evaluator's _compute_u: condition.enforce(net, rs, thetas, phis) in
\* SolutionSpherical, condition.enforce(net, rs) in
\* SolutionSphericalHarmonics, for a condition of the evaluator's kind
EnforceDirect ==
    /\ cond_pc = "ready"
    /\ Len(conds) = 1
    /\ funcs' = <<CondEnforce(conds[1],
                              Leading(Coordinates,
                                      Len(EnforceParams(conds[1].cls)) - 1),
                              point)>>
    /\ cond_pc' = "enforced"
    /\ UNCHANGED <<solverVars, cond_args, conds, point>>

\* `funcs = [self._auto_enforce(n, c, *batch) for n, c in zip(...)]` for
\* one batch of _run_epoch
EnforceSystem ==
    /\ cond_pc = "ready"
    /\ funcs' = [k \in 1..Len(conds) |-> AutoEnforce(conds[k], point)]
    /\ cond_pc' = "enforced"
    /\ UNCHANGED <<solverVars, cond_args, conds, point>>

\* points of a batch; u is what the net gives there
Points == [r : PointRadii, u : RawOutputs, enforcer : BOOLEAN]

\* no solver is involved
NoSolverFrame ==
    /\ pc = "none"
    /\ ctor_args = <<>>
    /\ SolverIs(NoSolver)
    /\ NoFrame

\* a condition class is about to be called, and the object will be
\* enforced at a point that is not inside the inner boundary
InitCondition ==
    /\ NoSolverFrame
    /\ cond_pc = "new"
    /\ cond_args \in CondArgs
    /\ conds = <<>>
    /\ point \in {pt \in Points : pt.r >= cond_args.r_0 /\ ~pt.enforcer}
    /\ funcs = <<>>

NextCondition ==
    \/ CondInit
    \/ EnforceDirect

SpecCondition == InitCondition /\ [][NextCondition]_vars

\* condition objects of every class, as a solver holds them
SystemConditions ==
    {a \in CondArgs : /\ ~CondInitRaises(a)
                      /\ a.r_0 = 0 /\ a.f \in {0, 2 * Scale}
                      /\ a.g \in {None, Some(-Scale)}
                      /\ a.r_1 \in {None, Some(2 * Scale)}
                      /\ a.order = Scale}

SystemsOfLen(n) == [1..n -> SystemConditions]

\* a solver's conditions and one batch point
InitSystem ==
    /\ NoSolverFrame
    /\ cond_pc = "ready"
    /\ cond_args = <<>>
    /\ conds \in UNION {SystemsOfLen(n) : n \in 1..MaxFuncs}
    /\ point \in {pt \in Points : pt.r \in {0, Scale} /\ pt.u = 5 * Scale}
    /\ funcs = <<>>

NextSystem == EnforceSystem

SpecSystem == InitSystem /\ [][NextSystem]_vars

\* ------------------------------------------------------------------- Spec
Raisers == {"generator", "pde_system", "criterion"}

\* fit(me, ...) is called while the solver has room for me more epochs
Room(me, cap) == Len(loss["train"]) + me <= cap

\* the training loop: validation losses vary, collaborators may raise, the
\* callbacks and the monitor are the simplest ones
Next ==
    \/ \E me \in 0..MaxLossEpochs, mon \in {0, 1},
          cbs \in {<<>>, <<StopAt(0), Noop>>} :
          Room(me, MaxLossEpochs) /\ Fit(me, mon, cbs)
    \/ LoopHead
    \/ RunBatch("train", {0}, {0})
    \/ RunBatch("valid", BatchLosses, {0})
    \/ \E key \in Keys, who \in Raisers : BatchRaises(key, who)
    \/ EndTrain
    \/ OptimizerRaises
    \/ EndValid
    \/ RunCallback
    \/ MonitorStep

Spec == Init /\ [][Next]_vars

\* the solver with its whole public interface: fit (with a monitor that
\* checks every epoch and one callback), get_solution and get_internals,
\* with collaborators that return and a loss that is always the same
NextApi ==
    \/ \E me \in 0..MaxLossEpochs :
          Room(me, MaxLossEpochs) /\ Fit(me, 1, <<Noop>>)
    \/ LoopHead
    \/ \E key \in Keys : RunBatch(key, {0}, {0})
    \/ EndTrain
    \/ EndValid
    \/ RunCallback
    \/ MonitorStep
    \/ \E copy \in BOOLEAN, best \in BOOLEAN, harmonics_fn \in BOOLEAN :
          GetSolution(copy, best, harmonics_fn)
    \/ Evaluate
    \/ GetInternals([form |-> "all", names |-> <<"all">>], "list")

SpecApi == Init /\ [][NextApi]_vars

\* the control flow of fit: every monitor and callback list, every
\* collaborator returns, the loss is always the same
FitStep ==
    \/ LoopHead
    \/ \E key \in Keys : RunBatch(key, {0}, {0})
    \/ EndTrain
    \/ EndValid
    \/ RunCallback
    \/ MonitorStep

NextFit ==
    \/ \E me \in 0..MaxEpochs, mon \in 0..MaxCheckEvery, cbs \in CallbackLists :
          Room(me, MaxTotalEpochs) /\ Fit(me, mon, cbs)
    \/ FitStep

SpecFit == Init /\ [][NextFit]_vars

\* fit calls, between which the caller may set the stop flag
NextStop == NextFit \/ SetStopFlag

SpecStop == Init /\ [][NextStop]_vars

\* fit is a blocking call: once called, it keeps running
SpecFitLive == Init /\ [][NextFit]_vars /\ WF_vars(FitStep)

\* evaluators taken between fit calls that find better and worse
\* validation losses
NextSolution ==
    \/ \E me \in 0..MaxLossEpochs :
          Room(me, MaxLossEpochs) /\ Fit(me, 0, <<>>)
    \/ LoopHead
    \/ RunBatch("train", {0}, {0})
    \/ RunBatch("valid", {0, LossScale}, {0})
    \/ EndTrain
    \/ EndValid
    \/ MonitorStep
    \/ \E copy \in BOOLEAN, best \in BOOLEAN :
          GetSolution(copy, best, FALSE)
    \/ Evaluate

SpecSolution == Init /\ [][NextSolution]_vars

\* get_internals with every kind of request, between fit calls
NextInternals ==
    \/ \E me \in 0..MaxLossEpochs :
          Room(me, MaxLossEpochs) /\ Fit(me, 0, <<Noop>>)
    \/ FitStep
    \/ \E param_names \in ParamNames, return_type \in ReturnTypes :
          GetInternals(param_names, return_type)

SpecInternals == Init /\ [][NextInternals]_vars

\* a solver with an analytic solution, collaborators that may raise; the
\* error against the analytic solution varies in the training phase
NextAnalytic ==
    \/ \E me \in 0..MaxLossEpochs :
          Room(me, MaxLossEpochs) /\ Fit(me, 0, <<>>)
    \/ LoopHead
    \/ RunBatch("train", {0}, BatchSqErrs)
    \/ RunBatch("valid", {0}, {0})
    \/ \E key \in Keys, who \in Raisers : BatchRaises(key, who)
    \/ EndTrain
    \/ OptimizerRaises
    \/ EndValid
    \/ MonitorStep

SpecAnalytic == InitAnalytic /\ [][NextAnalytic]_vars

\* fit with two MonitorCallbacks that differ in check_against only, with
\* and without a monitor of its own
MonitorCallbackLists ==
    {<<MonitorCallback(ce, "local", rl), MonitorCallback(ce, "global", rl)>> :
        ce \in 1..MaxCheckEvery, rl \in BOOLEAN}

NextMonitorCallback ==
    \/ \E me \in 0..MaxEpochs, mon \in 0..MaxCheckEvery,
          cbs \in MonitorCallbackLists :
          Room(me, MaxTotalEpochs) /\ Fit(me, mon, cbs)
    \/ FitStep

SpecMonitorCallback == Init /\ [][NextMonitorCallback]_vars

\* the same runs, of a solver with and of a solver without an analytic
\* solution
InitEither == Init \/ InitAnalytic

SpecEither == InitEither /\ [][NextAnalytic]_vars

\* construction alone
NextCtor == Construct

SpecCtor == InitCtor /\ [][NextCtor]_vars

\* construction, then fit calls on the solver constructed
NextCtorFit ==
    \/ Construct
    \/ \E me \in 0..MaxLossEpochs :
          Room(me, MaxLossEpochs) /\ Fit(me, 0, <<Noop>>)
    \/ FitStep

SpecCtorFit == InitCtorFit /\ [][NextCtorFit]_vars

TypeOK ==
    /\ pc \in {"none", "ctor", "failed", "idle", "loop", "train", "valid",
              "callbacks", "monitor"}
    /\ lowest_loss \in Int
    /\ \A id \in Ids : heap[id] \in Int

\* ================================================================= claims
Last(q) == q[Len(q)]

\* a fit call has returned normally
FitReturned == pc = "idle" /\ ret = "None" /\ hist.fits > 0

\* a fit call was left by an exception
FitAborted == pc = "idle" /\ ret = "Exception"

\* epochs the latest fit call has run: training and validation phases
TrainPhasesOfFit == Len(loss["train"]) - hist.fit_len0["train"]
ValidPhasesOfFit == Len(loss["valid"]) - hist.fit_len0["valid"]

\* a step that appends a validation loss
ValidAppended == Len(loss'["valid"]) = Len(loss["valid"]) + 1

\* ---- C1
C1_LowestIsMin ==
    IF loss["valid"] = <<>>
    THEN lowest_loss = NoLoss
    ELSE lowest_loss = MinOfSeq(loss["valid"])

C1_NeverIncreases ==
    lowest_loss # NoLoss =>
        (lowest_loss' # NoLoss /\ lowest_loss' <= lowest_loss)

\* C1: lowest_loss is None while the validation history is empty and is the
\* minimum of the validation loss history afterwards, over all fit calls;
\* no step (the start of a new fit call included) raises or resets it.
C1_LowestLoss == []C1_LowestIsMin /\ [][C1_NeverIncreases]_vars

\* a second fit call has recorded a validation loss above the minimum, which
\* the first fit call found
C1_Witness ==
    /\ hist.fits = 2
    /\ hist.fit_len0["valid"] = 1
    /\ Len(loss["valid"]) = 2
    /\ loss["valid"][1] < loss["valid"][2]
    /\ lowest_loss = loss["valid"][1]

\* ---- C2
C2_SnapshotState ==
    best_nets # <<>> =>
        /\ Len(best_nets) = Len(nets)
        /\ Range(best_nets) \cap Range(nets) = {}
        /\ \E k \in 1..Len(loss["valid"]) :
              /\ loss["valid"][k] = lowest_loss
              /\ Weights(heap, best_nets) = hist.valid_w[k]

C2_SnapshotSteps ==
    /\ best_nets' # best_nets =>
          /\ pc = "valid"
          /\ batch_id = n_batches["valid"]
          /\ pc' \in {"callbacks", "monitor"}
    /\ best_nets' = best_nets =>
          Weights(heap', best_nets) = Weights(heap, best_nets)

\* C2: a best snapshot consists of objects of its own, whose weights are
\* those self.nets had right after the optimizer step of the epoch whose
\* validation loss is lowest_loss; best_nets is assigned only by the step
\* that ends a validation phase, and no other step changes its weights.
C2_BestSnapshot == []C2_SnapshotState /\ [][C2_SnapshotSteps]_vars

\* the nets were trained further after the snapshot was taken
C2_Witness ==
    /\ best_nets # <<>>
    /\ Len(loss["valid"]) >= 2
    /\ heap[nets[1]] > heap[best_nets[1]]
    /\ heap[best_nets[1]] >= 1

\* ---- C3
C3_Steps ==
    /\ (lowest_loss' # lowest_loss \/ best_nets' # best_nets) =>
          /\ ValidAppended
          /\ lowest_loss = NoLoss \/ Last(loss'["valid"]) < lowest_loss
          /\ lowest_loss' = Last(loss'["valid"])
          /\ best_nets' # best_nets
    /\ (ValidAppended /\ lowest_loss # NoLoss) =>
          (Last(loss'["valid"]) >= lowest_loss =>
              /\ lowest_loss' = lowest_loss
              /\ best_nets' = best_nets
              /\ Weights(heap', best_nets) = Weights(heap, best_nets))

C3_Earliest ==
    best_nets # <<>> =>
        LET m == MinOfSeq(loss["valid"])
            k == Min({j \in 1..Len(loss["valid"]) : loss["valid"][j] = m})
        IN Weights(heap, best_nets) = hist.valid_w[k]

\* C3: lowest_loss and best_nets change only when a validation loss strictly
\* below lowest_loss (or the first one) is recorded; a validation loss equal
\* to lowest_loss changes neither, so the snapshot holds the weights of the
\* earliest epoch that attained the minimum validation loss.
C3_TiesNeverReplace == []C3_Earliest /\ [][C3_Steps]_vars

\* two epochs with the same, lowest validation loss: the snapshot is the
\* first one's
C3_Witness ==
    /\ Len(loss["valid"]) >= 2
    /\ loss["valid"][1] = loss["valid"][2]
    /\ lowest_loss = loss["valid"][1]
    /\ Weights(heap, best_nets) = hist.valid_w[1]
    /\ hist.valid_w[1] # hist.valid_w[2]

\* ---- C4
C4_CountsTrainPhases ==
    /\ GlobalEpoch = hist.train_phases
    /\ pc \in {"valid", "callbacks", "monitor"} =>
          GlobalEpoch = hist.fit_len0["train"] + local_epoch + 1

C4_Steps ==
    /\ GlobalEpoch' >= GlobalEpoch
    /\ (pc = "idle" /\ pc' = "loop") =>
          (GlobalEpoch' = GlobalEpoch /\ next_epoch' = 0)

\* C4: global_epoch, the length of the train loss history, is the number of
\* training phases completed over all fit calls (the epochs before the
\* current fit call plus local_epoch + 1 once the training phase of the
\* current epoch is over); no step lowers it, and the start of a fit call
\* leaves it alone while the local epoch count starts again from 0.
C4_GlobalEpoch == []C4_CountsTrainPhases /\ [][C4_Steps]_vars

\* the first epoch of a second fit call
C4_Witness ==
    /\ hist.fits = 2
    /\ pc = "valid"
    /\ local_epoch = 0
    /\ GlobalEpoch = 3

\* ---- C5
\* C5: when a callback has set the stop flag in local epoch e, fit returns
\* after e+1 training phases and e+1 validation phases (both loss histories
\* are e+1 longer than when fit was called), the last epoch being e.
C5_EarlyStop ==
    (FitReturned /\ hist.stop_at >= 0) =>
        /\ TrainPhasesOfFit = hist.stop_at + 1
        /\ ValidPhasesOfFit = hist.stop_at + 1
        /\ local_epoch = hist.stop_at

\* fit(max_epochs = 3) stopped in local epoch 1: epochs 0 and 1 ran
C5_Witness ==
    /\ FitReturned
    /\ hist.stop_at = 1
    /\ max_local_epoch = 3
    /\ TrainPhasesOfFit = 2

\* ---- C6
C6_AtReturn ==
    FitReturned =>
        /\ TrainPhasesOfFit <= max_local_epoch
        /\ ValidPhasesOfFit = TrainPhasesOfFit
        /\ hist.stop_at = -1 => TrainPhasesOfFit = max_local_epoch
        /\ TrainPhasesOfFit < max_local_epoch =>
              (stop_training /\ hist.stop_at >= 0)

\* C6: when every collaborator call returns, a fit call that has started
\* eventually returns; it has then run at most max_epochs epochs, exactly
\* max_epochs when no callback set the stop flag, and fewer only when a
\* callback did.
C6_FitTerminates == ((pc # "idle") ~> FitReturned) /\ []C6_AtReturn

\* a fit call that ran all its epochs, and nobody asked it to stop
C6_Witness ==
    /\ FitReturned
    /\ max_local_epoch = MaxEpochs
    /\ TrainPhasesOfFit = MaxEpochs
    /\ hist.stop_at = -1

\* ---- C7
\* C7 as claimed: after an exception the histories are those of the
\* beginning of the failing epoch.
C7_Original ==
    FitAborted =>
        (loss = hist.epoch_loss0 /\ analytic_mse = hist.epoch_mse0)

\* the train history of key is that of the beginning of the epoch plus n
\* entries
GrewBy(h, h0, n) ==
    /\ Len(h) = Len(h0) + n
    /\ \A k \in 1..Len(h0) : h[k] = h0[k]

\* C7 (amended): after an exception raised by the generator, the residual
\* system or the criterion in a training batch, the histories are those of
\* the beginning of the failing epoch; when the optimizer step raises, the
\* train loss history has one more entry; when the exception is raised in
\* the validation phase, the train loss history and (with an analytic
\* solution) the train analytic-MSE history have one more entry.  The
\* validation histories never differ from those of the beginning of the
\* epoch.
C7_HistoriesAfterException ==
    FitAborted =>
        /\ loss["valid"] = hist.epoch_loss0["valid"]
        /\ analytic_mse["valid"] = hist.epoch_mse0["valid"]
        /\ (hist.exc_phase = "train" /\ hist.exc_by # "optimizer") =>
              /\ loss["train"] = hist.epoch_loss0["train"]
              /\ analytic_mse["train"] = hist.epoch_mse0["train"]
        /\ hist.exc_by = "optimizer" =>
              /\ GrewBy(loss["train"], hist.epoch_loss0["train"], 1)
              /\ analytic_mse["train"] = hist.epoch_mse0["train"]
        /\ hist.exc_phase = "valid" =>
              /\ GrewBy(loss["train"], hist.epoch_loss0["train"], 1)
              /\ GrewBy(analytic_mse["train"], hist.epoch_mse0["train"],
                        IF analytic_solutions THEN 1 ELSE 0)

\* the criterion raises in the validation phase of a second epoch
C7_Witness ==
    /\ FitAborted
    /\ hist.exc_phase = "valid"
    /\ hist.exc_by = "criterion"
    /\ Len(loss["train"]) = 2
    /\ Len(loss["valid"]) = 1
    /\ Len(analytic_mse["train"]) = 2
    /\ analytic_mse["train"][1] # analytic_mse["train"][2]

\* ---- C8
C8_ParametersChange ==
    \/ nets' # nets
    \/ Weights(heap', nets) # Weights(heap, nets)

C8_EndOfTrainingPhase ==
    pc = "train" /\ batch_id = n_batches["train"] /\ pc' = "valid"

C8_Steps ==
    /\ C8_ParametersChange => C8_EndOfTrainingPhase
    /\ pc \in {"valid", "callbacks", "monitor", "idle"} =>
          /\ ~C8_ParametersChange
          /\ grads' = grads

\* C8: the approximators of self.nets and their weights change only in the
\* step that ends a training phase; the steps of a validation phase, of the
\* callbacks and the monitor, get_solution and get_internals leave the
\* weights and the accumulated gradients as they are.
C8_OnlyOptimizerStep == [][C8_Steps]_vars

\* the validation batches of an epoch are done, after the nets were trained
\* and a solution was taken
C8_Witness ==
    /\ pc = "valid"
    /\ batch_id = n_batches["valid"]
    /\ hist.solutions = 1
    /\ heap[nets[1]] >= 2

\* ---- C9
\* C9: a solver that was constructed has as many nets as conditions, and
\* n_funcs is that number.
C9_NetsMatchConditions ==
    pc = "idle" => (n_funcs = Len(nets) /\ n_funcs = Len(conditions))

\* ---- C10
\* C10 as claimed: the monitor is checked once in an epoch that is a
\* multiple of check_every or the last one fit runs, whatever the reason.
C10_Original ==
    (pc = "loop" /\ next_epoch > 0 /\ monitor # 0) =>
        hist.mon_calls =
            IF \/ (local_epoch + 1) % monitor = 0
               \/ next_epoch >= max_local_epoch
               \/ stop_training
            THEN 1 ELSE 0

\* C10 (amended): in every epoch that fit runs with a monitor, the check is
\* invoked exactly once if local_epoch + 1 is a multiple of check_every or
\* local_epoch = max_epochs - 1, and not at all otherwise; without a monitor
\* it is never invoked.
C10_MonitorCheck ==
    (pc = "loop" /\ next_epoch > 0) =>
        hist.mon_calls =
            IF /\ monitor # 0
               /\ \/ (local_epoch + 1) % monitor = 0
                  \/ local_epoch = max_local_epoch - 1
            THEN 1 ELSE 0

\* an epoch that is the last one because of a stop request, and not checked
C10_Witness ==
    /\ pc = "loop"
    /\ monitor = 2
    /\ stop_training
    /\ local_epoch = 0
    /\ max_local_epoch = 3
    /\ hist.mon_calls = 0

\* ---- C11
\* the nets get_solution chose: best_nets or nets
ChosenNets == IF hist.sol_best THEN best_nets ELSE nets

\* C11: in every solver state, the evaluator get_solution returns holds the
\* best snapshot (best) or the current nets (not best), one approximator for
\* every condition of the solver, and it is the harmonic variant exactly
\* when a basis was supplied.
C11_SolutionBound ==
    ret = "solution" =>
        /\ Len(sol.nets) = Len(sol.conditions)
        /\ Weights(heap, sol.nets) = Weights(heap, ChosenNets)
        /\ sol.conditions = conditions
        /\ (sol.kind = "SolutionSphericalHarmonics") = sol.harmonics_fn
        /\ (sol.kind = "SolutionSpherical") = ~sol.harmonics_fn

\* ---- C12
\* the evaluator exists and this step is not a get_solution call
C12_HeldEvaluator == sol.kind # "None" /\ hist'.solutions = hist.solutions

\* this step is a call of the evaluator
C12_EvaluateStep ==
    ret' \in {"values", "TypeError"} /\ ret \notin {"values", "TypeError"}

C12_Steps ==
    /\ C12_HeldEvaluator =>
          /\ sol' = sol
          /\ Weights(heap', sol.nets) = Weights(heap, sol.nets)
    /\ C12_EvaluateStep =>
          UNCHANGED <<conditions, n_funcs, nets, heap, grads, loss,
                      analytic_mse, best_nets, lowest_loss, local_epoch,
                      max_local_epoch, stop_training, phase, n_batches>>

\* the evaluator shares no approximator with the solver
C12_Independent ==
    Range(sol.nets) \cap (Range(nets) \cup Range(best_nets)) = {}

\* C12: an evaluator returned by get_solution, with copy or without, keeps
\* its approximators and conditions whatever optimizer steps and snapshot
\* replacements come later, and calling it leaves the solver as it is.
C12_Frozen == []C12_Independent /\ [][C12_Steps]_vars

\* an evaluator of the current nets taken without copy, on a solver that
\* was trained further and found a better snapshot afterwards
C12_Witness ==
    /\ ret = "values"
    /\ ~hist.sol_copy
    /\ ~hist.sol_best
    /\ sol.nets # <<>>
    /\ heap[sol.nets[1]] = 1
    /\ heap[nets[1]] = 2
    /\ heap[best_nets[1]] = 2

\* ---- C17
\* a complete generator pair, a complete (r_min, r_max) pair
C17_GeneratorPair == ctor_args.train_generator /\ ctor_args.valid_generator

C17_RadiusPair == ctor_args.r_min /\ ctor_args.r_max

\* C17: the constructor fails with ValueError exactly when neither the
\* generator pair nor the (r_min, r_max) pair is complete; a solver that
\* was constructed never fails that way inside fit.
C17_EagerConfigError ==
    /\ pc # "ctor" =>
          ((pc = "failed") <=> (~C17_GeneratorPair /\ ~C17_RadiusPair))
    /\ pc = "failed" => (ret = "ValueError" /\ hist.fits = 0)
    /\ pc \notin {"ctor", "failed"} => ret # "ValueError"

\* a solver constructed from the radii alone, with one generator missing,
\* has run a fit call to its end
C17_Witness ==
    /\ FitReturned
    /\ GlobalEpoch >= 1
    /\ ~ctor_args.train_generator
    /\ ctor_args.valid_generator
    /\ C17_RadiusPair

\* ---- C18
\* the latest call was get_internals, and ret is its outcome
InternalsReturned ==
    /\ pc = "idle"
    /\ hist.request.form # "None"
    /\ ret \in {"dict", "value", "list", "KeyError", "ValueError"}

C18_Unrecognized == hist.request.return_type \notin {"list", "dict"}

\* C18 as claimed: an unrecognized return type fails with ValueError for a
\* single name, a list of names and "all" alike.
C18_Original ==
    (InternalsReturned /\ C18_Unrecognized) => ret = "ValueError"

\* C18: get_internals fails with ValueError exactly when a list of names is
\* requested with a return type other than 'list' and 'dict'; for a single
\* name and for "all" the return type is ignored.
C18_ReturnTypeChecked ==
    InternalsReturned =>
        ((ret = "ValueError") <=>
            (hist.request.form = "list" /\ C18_Unrecognized))

\* after an epoch, a list with an unknown name was requested as a tuple
C18_Witness ==
    /\ InternalsReturned
    /\ GlobalEpoch >= 1
    /\ hist.request.form = "list"
    /\ hist.request.names = <<"nets", "weights">>
    /\ hist.request.return_type = "tuple"
    /\ ret = "ValueError"

\* ---- C19
\* a name outside the exposed fields was asked for, alone or in a list
C19_UnknownRequested ==
    /\ hist.request.form \in {"str", "list"}
    /\ \E k \in 1..Len(hist.request.names) :
          hist.request.names[k] \notin AvailableParams

\* C19 as claimed: an unknown name, alone or in a list, fails with KeyError.
C19_Original ==
    (InternalsReturned /\ C19_UnknownRequested) => ret = "KeyError"

\* the outcome of a request with an unknown name
C19_LookupError ==
    (/\ InternalsReturned
     /\ C19_UnknownRequested
     /\ (hist.request.form = "list" => ~C18_Unrecognized))
        => ret = "KeyError"

\* a get_internals call changes nothing of the solver
C19_Steps ==
    (pc = "idle" /\ pc' = "idle" /\ hist'.request # hist.request) =>
        UNCHANGED <<conditions, n_funcs, nets, heap, grads, loss,
                    analytic_mse, best_nets, lowest_loss, local_epoch,
                    max_local_epoch, stop_training, phase, n_batches, sol>>

\* C19: an unknown name, alone or in a list requested as 'list' or 'dict',
\* fails with KeyError and nothing else is returned; the solver is left as
\* it was.
C19_UnknownName == []C19_LookupError /\ [][C19_Steps]_vars

\* after an epoch, a list whose second name is unknown was requested as a
\* dict
C19_Witness ==
    /\ InternalsReturned
    /\ GlobalEpoch >= 1
    /\ hist.request.form = "list"
    /\ hist.request.names = <<"nets", "weights">>
    /\ hist.request.return_type = "dict"
    /\ ret = "KeyError"

\* ---- C13
\* the conditions of the system were enforced by the solver
Enforced == cond_pc = "enforced"

\* C13: without an enforcer, the solver calls enforce of every condition
\* with the leading coordinates its signature takes after the net: r alone
\* for enforce(net, r), all three for enforce(net, r, theta, phi).
C13_AutoEnforce ==
    (Enforced /\ ~point.enforcer) =>
        \A k \in 1..Len(conds) :
            /\ funcs[k].via = "enforce"
            /\ funcs[k].raised # "TypeError"
            /\ funcs[k].args =
                  IF conds[k].cls \in HarmonicsClasses
                  THEN <<"r">> ELSE <<"r", "theta", "phi">>

\* a radius-only and a full condition in one system, enforced on one batch
C13_Witness ==
    /\ Enforced
    /\ ~point.enforcer
    /\ Len(conds) = 2
    /\ conds[1].cls = "DirichletBVPSphericalHarmonics"
    /\ conds[2].cls = "DirichletBVPSpherical"
    /\ funcs[1].args = <<"r">>
    /\ funcs[2].args = <<"r", "theta", "phi">>

\* ---- C14
\* C14: a Dirichlet condition, direct or harmonic, enforced at r_0 gives f
\* (R_0), and a two-sided one enforced at r_1 gives g (R_1), whatever the
\* raw output is: its weight is 0 there.
C14_BoundaryExact ==
    (Enforced /\ Len(conds) = 1 /\ conds[1].cls \in DirichletClasses) =>
        LET c == conds[1]
        IN /\ point.r = c.r_0 =>
                 /\ funcs[1].raised = "None"
                 /\ funcs[1].value = c.f
                 /\ c.r_1 = None => OneSidedWeight(point.r, c.r_0) = 0
           /\ (c.r_1 # None /\ point.r = c.r_1[1]) =>
                 /\ funcs[1].raised = "None"
                 /\ funcs[1].value = c.g[1]
           /\ c.r_1 # None =>
                 (TwoSidedWeight(0) = 0 /\ TwoSidedWeight(Scale) = 0)

\* a two-sided harmonic condition enforced at its outer radius on a raw
\* output that is not 0
C14_Witness ==
    /\ Enforced
    /\ Len(conds) = 1
    /\ conds[1].cls = "DirichletBVPSphericalHarmonics"
    /\ conds[1].r_1 = Some(point.r)
    /\ conds[1].r_0 = Scale
    /\ point.u = 5 * Scale
    /\ funcs[1].value = conds[1].g[1]
    /\ conds[1].g # Some(conds[1].f)

\* ---- C15
\* an infinite Dirichlet condition was enforced
C15_Case == Enforced /\ Len(conds) = 1 /\ conds[1].cls \in InfDirichletClasses

\* within a tolerance of 0.02
Near(a, b) == a - b <= Scale \div 50 /\ b - a <= Scale \div 50

\* r - r_0 is 8 or more times 1/k; r - r_0 is 8 or more
C15_FarForOrder == Mul(conds[1].order, point.r - conds[1].r_0) >= 8 * Scale

C15_Far == point.r - conds[1].r_0 >= 8 * Scale

\* C15 as claimed: the enforced value is f at r_0, and close to g once r is
\* large relative to 1/k.
C15_Original ==
    C15_Case =>
        /\ point.r = conds[1].r_0 => funcs[1].value = conds[1].f
        /\ C15_FarForOrder => Near(funcs[1].value, conds[1].g[1])

\* C15: the enforced value is f at r_0, and close to g once r - r_0 is
\* large relative to 1/k and to 1, for raw outputs that are bounded.
C15_InfDirichlet ==
    C15_Case =>
        /\ point.r = conds[1].r_0 => funcs[1].value = conds[1].f
        /\ (C15_FarForOrder /\ C15_Far) =>
              Near(funcs[1].value, conds[1].g[1])

\* order 1/2, enforced 16 away from the inner radius on a raw output that
\* is not 0
C15_Witness ==
    /\ C15_Case
    /\ conds[1].order = Scale \div 2
    /\ conds[1].r_0 = 0
    /\ point.r = 16 * Scale
    /\ point.u = 5 * Scale
    /\ conds[1].g # Some(conds[1].f)
    /\ Near(funcs[1].value, conds[1].g[1])

\* ---- C16
\* exactly one of the outer radius and the outer value was supplied
C16_OneOfPair ==
    \/ cond_args.r_1 = None /\ cond_args.g # None
    \/ cond_args.r_1 # None /\ cond_args.g = None

\* C16: constructing a two-sided Dirichlet condition, direct or harmonic,
\* fails exactly when one of r_1 and g (R_1) is None and the other is not.
C16_OuterPair ==
    (cond_pc \in {"failed", "ready", "enforced"}
        /\ cond_args.cls \in DirichletClasses) =>
        ((cond_pc = "failed") <=> C16_OneOfPair)

\* the harmonic class called with an outer radius and no outer value
C16_Witness ==
    /\ cond_pc = "failed"
    /\ cond_args.cls = "DirichletBVPSphericalHarmonics"
    /\ cond_args.r_1 = Some(2 * Scale)
    /\ cond_args.g = None

\* ---- C20
\* C20: enforce of an abstract base condition raises NotImplementedError and
\* does not evaluate the net, whatever the point and the raw output are.
C20_AbstractEnforce ==
    (Enforced /\ Len(conds) = 1
        /\ conds[1].cls \in {"BaseConditionSpherical",
                             "BaseConditionSphericalHarmonics"}) =>
        /\ funcs[1].raised = "NotImplementedError"
        /\ funcs[1].net_calls = 0

\* the harmonic base condition enforced where the net gives a value
C20_Witness ==
    /\ Enforced
    /\ Len(conds) = 1
    /\ conds[1].cls = "BaseConditionSphericalHarmonics"
    /\ point.u = 5 * Scale
    /\ funcs[1].raised = "NotImplementedError"

\* ---- C21
\* this step is a get_solution or a get_internals call
C21_ReadCall ==
    \/ hist'.solutions # hist.solutions
    \/ hist'.request # hist.request
    \/ (pc = "idle" /\ pc' = "idle" /\ ret' # ret)

C21_Steps ==
    C21_ReadCall =>
        /\ UNCHANGED <<n_funcs, nets, conditions, loss, analytic_mse,
                       lowest_loss, best_nets>>
        /\ Weights(heap', nets) = Weights(heap, nets)
        /\ Weights(heap', best_nets) = Weights(heap, best_nets)

C21_Lengths == n_funcs = Len(nets) /\ n_funcs = Len(conditions)

\* C21: get_solution and get_internals leave n_funcs, the nets and their
\* weights, the conditions, both histories, lowest_loss and the best
\* snapshot as they were, between and after fit calls, and
\* n_funcs = len(nets) = len(conditions) keeps holding.
C21_ReadOnly == []C21_Lengths /\ [][C21_Steps]_vars

\* the best snapshot was asked for, without copy, from a solver that was
\* trained past its best snapshot in two fit calls
C21_Witness ==
    /\ ret = "solution"
    /\ hist.sol_best
    /\ ~hist.sol_copy
    /\ hist.fits = 2
    /\ best_nets # <<>>
    /\ Weights(heap, sol.nets) = Weights(heap, best_nets)
    /\ Weights(heap, nets) # Weights(heap, best_nets)

\* ---- C22
Rep(n, e) == [i \in 1..n |-> e]

IsPrefix(a, b) == Len(a) <= Len(b) /\ a = SubSeq(b, 1, Len(a))

\* the order the claim gives to one whole epoch, for the solver and the
\* fit arguments of this state
C22_EpochOrder ==
    <<Event("stop_check", "False")>>
    \o Rep(n_batches["train"], Event("batch", "train"))
    \o <<Event("append_loss", "train"), Event("optimizer_step", "train"),
         Event("zero_grad", "train")>>
    \o (IF analytic_solutions
        THEN <<Event("append_analytic_mse", "train")>> ELSE <<>>)
    \o Rep(n_batches["valid"], Event("batch", "valid"))
    \o <<Event("append_loss", "valid"), Event("update_best", "valid")>>
    \o (IF analytic_solutions
        THEN <<Event("append_analytic_mse", "valid")>> ELSE <<>>)
    \o [i \in 1..Len(callbacks) |-> Event("callback", callbacks[i].kind)]
    \o (IF monitor = 0 THEN <<>>
        ELSE <<Event("monitor",
                     IF MonitorDue(local_epoch, max_local_epoch, monitor)
                     THEN "check" ELSE "skip")>>)

\* what an epoch has done so far is the beginning of that order, and all
\* of it once the loop body is over
C22_InOrder ==
    /\ pc \in {"train", "valid", "callbacks", "monitor"}
          => IsPrefix(hist.events, C22_EpochOrder)
    /\ (pc = "loop" /\ next_epoch > 0) => hist.events = C22_EpochOrder

\* an epoch begins only when the one before it is complete
C22_EpochBegins ==
    (pc' = "train" /\ pc = "loop" /\ next_epoch > 0)
        => hist.events = C22_EpochOrder

\* C22: within every epoch of fit the training batches, the train-history
\* append, the optimizer step and the gradient clear come first, then the
\* validation batches, the valid-history append and the best-snapshot
\* update, then every callback in list order, then the monitor test; the
\* next epoch begins only after that.
C22_FixedOrder == []C22_InOrder /\ [][C22_EpochBegins]_vars

\* a second epoch begins after a first one with two training batches, two
\* callbacks and a monitor check
C22_Witness ==
    /\ pc = "train"
    /\ local_epoch = 1
    /\ n_batches["train"] = 2
    /\ Len(callbacks) = 2
    /\ callbacks[1] # callbacks[2]
    /\ monitor = 1

\* ---- C23
\* the stop checks recorded in the current epoch
C23_StopChecks ==
    SelectSeq(hist.events, LAMBDA e : e.ev = "stop_check")

\* the flag is set: the epoch is past both phases, and at the end of the
\* loop body it has run every batch, every callback and the monitor test
C23_RestOfEpoch ==
    /\ (stop_training /\ ret = "running")
          => /\ pc \in {"callbacks", "monitor", "loop"}
             /\ hist.stop_at = local_epoch
             /\ IsPrefix(hist.events, C22_EpochOrder)
    /\ (stop_training /\ pc = "loop") => hist.events = C22_EpochOrder
    /\ pc \in {"train", "valid", "callbacks", "monitor"}
          => /\ Len(C23_StopChecks) = 1
             /\ hist.events[1].ev = "stop_check"

\* with the flag set, the next loop head returns from fit and the solver
\* keeps its histories, weights, gradients and best snapshot
C23_Boundary ==
    (stop_training /\ pc = "loop")
        => /\ pc' = "idle"
           /\ ret' = "None"
           /\ UNCHANGED <<loss, analytic_mse, nets, heap, grads, best_nets,
                          lowest_loss>>

\* C23: a stop flag set by a callback takes effect at the epoch boundary
\* only: the epoch that sets it still runs every remaining callback and
\* the monitor test, after both phases have run all their batches; the
\* flag is read once per epoch, before the training phase; once it is
\* found set, fit returns without another batch, history entry, optimizer
\* step or best-snapshot update.
C23_StopAtBoundary == []C23_RestOfEpoch /\ [][C23_Boundary]_vars

\* the first of two callbacks has set the flag in an epoch that is not
\* the last one, the second callback and a monitor check have followed
C23_Witness ==
    /\ pc = "loop"
    /\ stop_training
    /\ next_epoch < max_local_epoch
    /\ Len(callbacks) = 2
    /\ CallbackStops(callbacks[1], local_epoch)
    /\ hist.mon_calls = 1
    /\ Last(hist.events) = Event("monitor", "check")

\* ---- C24
\* a phase, an epoch or a fit call is about to begin
C24_Begins ==
    \/ pc \in {"idle", "loop"}
    \/ (pc \in {"train", "valid"} /\ batch_id = 0)

C24_Boundary == pc \in {"idle", "loop"}

\* the claim as it stands: no gradients at any beginning, and as many
\* optimizer steps as global epochs at every boundary
C24_Original ==
    /\ C24_Begins => grads = 0
    /\ C24_Boundary => hist.opt_steps = GlobalEpoch

\* the end of a training phase: every batch has had its backward pass,
\* one optimizer step is made and the gradients are cleared
C24_PhaseEnd ==
    (pc = "train" /\ pc' = "valid")
        => /\ batch_id = n_batches["train"]
           /\ ~hist.aborted => grads = n_batches["train"]
           /\ hist'.opt_steps = hist.opt_steps + 1
           /\ Weights(heap', nets) = [i \in 1..Len(nets) |->
                                         Weights(heap, nets)[i] + 1]
           /\ grads' = 0

\* between the ends of training phases no optimizer step is made
C24_NoOtherStep ==
    ~(pc = "train" /\ pc' = "valid")
        => /\ hist'.opt_steps = hist.opt_steps
           /\ Weights(heap', nets) = Weights(heap, nets)

C24_WhileNotAborted == ~hist.aborted => C24_Original

\* C24 (amended): every training phase that reaches its end makes exactly
\* one optimizer step, after n_batches['train'] backward passes, and
\* clears the gradients right after it; as long as no fit call of the
\* solver was left by an exception, no gradients are present when a phase,
\* an epoch or a fit call begins and the optimizer steps equal
\* global_epoch at every epoch boundary.
C24_OneStepPerPhase ==
    /\ []C24_WhileNotAborted
    /\ [][C24_PhaseEnd /\ C24_NoOtherStep]_vars

\* two epochs of two training batches are done, without any exception
C24_Witness ==
    /\ pc = "loop"
    /\ ~hist.aborted
    /\ n_batches["train"] = 2
    /\ hist.opt_steps = 2
    /\ GlobalEpoch = 2
    /\ grads = 0

\* ---- C25
\* the batches of the current epoch drawn from the generator of key
C25_Draws(key) ==
    Len(SelectSeq(hist.events, LAMBDA e : e = Event("batch", key)))

\* the batches drawn by the phases of the current epoch up to phase key
C25_DrawsUpTo(key) ==
    [train |-> n_batches["train"],
     valid |-> IF key = "valid" THEN n_batches["valid"] ELSE 0]

\* a step that changes the loss history of key appends one entry, the sum
\* of the batch losses of the phase over n_batches[key], after exactly
\* n_batches[key] batches, each drawn from the generator of the phase
C25_Append(key) ==
    (loss'[key] # loss[key])
        => /\ pc = key
           /\ batch_id = n_batches[key]
           /\ loss'[key] = Append(loss[key],
                                  hist.raw_sum \div n_batches[key])
           /\ \A k \in Keys : C25_Draws(k) = C25_DrawsUpTo(key)[k]
           /\ \A k \in Keys \ {key} : loss'[k] = loss[k]

\* a running phase has drawn one batch per iteration, from its generator
C25_Running ==
    pc \in Keys
        => /\ C25_Draws(pc) = batch_id
           /\ batch_id <= n_batches[pc]
           /\ pc = "train" => C25_Draws("valid") = 0

\* C25: each phase draws exactly n_batches[phase] batches, all from the
\* generator of that phase, and appends exactly one entry to the loss
\* history of that phase, the sum over the batches of (criterion +
\* additional loss) / n_batches[phase].
C25_PhaseLoss ==
    /\ []C25_Running
    /\ [][\A key \in Keys : C25_Append(key)]_vars

\* a validation phase of two batches with different losses has appended
\* their mean
C25_Witness ==
    /\ pc \in {"callbacks", "monitor"}
    /\ n_batches["valid"] = 2
    /\ C25_Draws("valid") = 2
    /\ C25_Draws("train") = 1
    /\ Last(loss["valid"]) = LossScale \div 2

\* ---- C26
C26_Boundary == pc \in {"idle", "loop"}

C26_SameLengths ==
    \A k \in Keys : Len(analytic_mse[k]) = Len(loss[k])

C26_NoAnalytic ==
    ~analytic_solutions => \A k \in Keys : analytic_mse[k] = <<>>

\* the claim as it stands
C26_Original ==
    /\ (analytic_solutions /\ C26_Boundary) => C26_SameLengths
    /\ C26_NoAnalytic

\* a step that changes the analytic-MSE history of key ends the phase of
\* key and appends one entry, the accumulated sum over
\* n_batches[key] * n_funcs
C26_Append(key) ==
    (analytic_mse'[key] # analytic_mse[key])
        => /\ analytic_solutions
           /\ pc = key
           /\ batch_id = n_batches[key]
           /\ analytic_mse'[key] =
                 Append(analytic_mse[key],
                        epoch_analytic_mse \div (n_batches[key] * n_funcs))
           /\ Len(loss'[key]) = Len(loss[key]) + 1
           /\ \A k \in Keys \ {key} : analytic_mse'[k] = analytic_mse[k]

\* a phase that is completed appends to the analytic-MSE history
C26_Completes(key) ==
    (analytic_solutions /\ pc = key /\ pc' \notin {key, "idle"})
        => Len(analytic_mse'[key]) = Len(analytic_mse[key]) + 1

C26_Lengths ==
    /\ (analytic_solutions /\ C26_Boundary)
          => /\ Len(analytic_mse["valid"]) = Len(loss["valid"])
             /\ Len(analytic_mse["train"]) <= Len(loss["train"])
             /\ ~hist.aborted => C26_SameLengths
    /\ C26_NoAnalytic

\* C26 (amended): with an analytic reference, each completed phase appends
\* exactly one entry to the analytic-MSE history of the phase, the
\* accumulated sum over n_batches[phase] * n_funcs; at every epoch
\* boundary the valid analytic-MSE history is as long as the valid loss
\* history, and the train one is as long as the train loss history as
\* long as no fit call was left by an exception; without an analytic
\* reference both analytic-MSE histories stay empty.
C26_AnalyticHistory ==
    /\ []C26_Lengths
    /\ [][\A key \in Keys : C26_Append(key) /\ C26_Completes(key)]_vars

\* two epochs with an analytic reference: the second training phase of two
\* batches has appended a nonzero entry, nothing has raised
C26_Witness ==
    /\ analytic_solutions
    /\ pc = "loop"
    /\ ~hist.aborted
    /\ n_batches["train"] = 2
    /\ Len(analytic_mse["train"]) = 2
    /\ Len(analytic_mse["valid"]) = 2
    /\ Last(analytic_mse["train"]) > 0

\* ---- C27
\* C27: every monitor.check made by a MonitorCallback gets the arguments
\* fit gives to its own monitor: the nets, the conditions, the loss
\* history and the analytic-MSE history of the solver.
C27_SameArguments ==
    \A i \in DOMAIN hist.checks :
        hist.checks[i].by = "callback" => hist.checks[i].args = FitCheckArgs

\* ---- C30
\* C30: in every epoch of the first fit call of a solver, the
\* MonitorCallback with check_against = 'global' decides as the one with
\* check_against = 'local' that has the same check_every and repaint_last.
C30_SameDecision ==
    (hist.fits = 1 /\ Len(hist.repaints) = 2)
        => hist.repaints[1] = hist.repaints[2]

\* ---- C28
\* how many entries the train loss history is ahead of the valid one
C28_Ahead == Len(loss["train"]) - Len(loss["valid"])

\* the same, when the running or latest fit call began
C28_Ahead0 == hist.fit_len0["train"] - hist.fit_len0["valid"]

\* the claim as it stands
C28_Original ==
    /\ FitReturned => C28_Ahead = 0
    /\ ret = "running"
          => /\ C28_Ahead \in {0, 1}
             /\ C28_Ahead = 1 <=> pc = "valid"

C28_SincePhase ==
    /\ FitReturned => C28_Ahead = C28_Ahead0
    /\ ret = "running"
          => /\ C28_Ahead - C28_Ahead0 \in {0, 1}
             /\ C28_Ahead - C28_Ahead0 = 1 <=> pc = "valid"
    /\ ~hist.aborted => C28_Original

\* C28 (amended): whenever a fit call returns normally, the train and
\* validation loss histories have grown by the same number of entries
\* during the call; at every point during a fit call the train history has
\* grown by 0 or 1 entries more than the validation history, by exactly 1
\* only between the end of an epoch's training phase and the end of its
\* validation phase. The two histories have equal length at a normal
\* return, and differ by 0 or 1 during a call, as long as no fit call of
\* the solver was left by an exception.
C28_HistoriesInStep == []C28_SincePhase

\* a second fit call has returned normally, two epochs are in both
\* histories and no call was left by an exception
C28_Witness ==
    /\ FitReturned
    /\ hist.fits = 2
    /\ ~hist.aborted
    /\ Len(loss["train"]) = 2
    /\ Len(loss["valid"]) = 2

\* ---- C29
\* fit begins with the flag cleared, and runs its local epoch 0 when
\* max_epochs >= 1
C29_Begin ==
    /\ (pc = "idle" /\ pc' = "loop") => ~stop_training'
    /\ (pc = "loop" /\ next_epoch = 0 /\ max_local_epoch >= 1)
          => (pc' = "train" /\ local_epoch' = 0)

\* a flag found set in a running call was set by a callback of that call
C29_OwnStop ==
    (ret = "running" /\ stop_training) => hist.stop_at = local_epoch

\* a call that has returned ran max_epochs epochs, or up to the epoch in
\* which one of its own callbacks asked for the stop
C29_FullLength ==
    FitReturned =>
        TrainPhasesOfFit = IF hist.stop_at # -1 THEN hist.stop_at + 1
                           ELSE max_local_epoch

\* C29: every fit call clears the stop flag before its first epoch: a
\* flag left set by an early-stopped fit call, or set between fit calls,
\* does not keep the next fit(max_epochs >= 1) from running its local
\* epoch 0, and does not shorten it.
C29_FlagCleared ==
    /\ [](C29_OwnStop /\ C29_FullLength)
    /\ [][C29_Begin]_vars

\* a fit call that found the flag set has run all its two epochs
C29_Witness ==
    /\ FitReturned
    /\ hist.stop_found
    /\ hist.stop_at = -1
    /\ max_local_epoch = 2
    /\ TrainPhasesOfFit = 2
====
